---- MODULE Spec2Model ----
(***************************************************************************)
(* A model of nfo.py: process_albums walks the sub-folders of input/, runs *)
(* generate_nfo on each (mediainfo per audio file, first-wins aggregation, *)
(* Discogs lookup, template rendering) and moves the folder to output/.    *)
(*                                                                         *)
(* Python values are modelled as records: None is [none |-> TRUE], a str   *)
(* is [str |-> s] with s the sequence of its text segments (single         *)
(* characters for numbers, longer segments elsewhere; a segment is never   *)
(* split by the operations modelled), a list is [list |-> s] and a dict is *)
(* [dict |-> f] with f a function on its keys.                             *)
(***************************************************************************)
EXTENDS Integers, Sequences, FiniteSets, TLC

VARIABLES
  DISCOGS_TOKEN,   \* module global read from the environment at import
  template,        \* template.nfo: "ok", "missing" or "badkey"
  mediainfo,       \* the mediainfo executable: "ok" or "missing"
  inputExists,     \* INPUT_DIR.exists()
  outputExists,    \* OUTPUT_DIR.exists()
  inputDir,        \* entries of input/, by name
  outputDir,       \* entries of output/, by name
  pc,              \* position of process_albums / generate_nfo
  entries,         \* the listing INPUT_DIR.iterdir() iterates over
  idx,             \* position of the for loop of process_albums in entries
  audio_files,     \* generate_nfo: the globbed files, in processing order
  fileIdx,         \* generate_nfo: position of the for loop in audio_files
  artist, album, genre, source, year,   \* generate_nfo locals
  total_duration,  \* generate_nfo local, in tenths of a second
  total_size,      \* generate_nfo local, bytes
  discogs_link,    \* generate_nfo local
  response,        \* search_discogs: what requests.get met (None: no request)
  info,            \* generate_nfo local: the mapping given to the template
  httpRequests     \* number of requests.get calls issued so far

vars == << DISCOGS_TOKEN, template, mediainfo, inputExists, outputExists,
           inputDir, outputDir, pc, entries, idx, audio_files, fileIdx,
           artist, album, genre, source, year, total_duration, total_size,
           discogs_link, response, info, httpRequests >>

nfoLocals == << audio_files, fileIdx, artist, album, genre, source, year,
                total_duration, total_size, discogs_link, response, info >>

config == << DISCOGS_TOKEN, template, mediainfo, inputExists >>

-----------------------------------------------------------------------------
(* Python values *)

None == [none |-> TRUE]
Str(s) == [str |-> s]
JList(s) == [list |-> s]
JDict(f) == [dict |-> f]
NoKeys == [k \in {} |-> None]

IsStr(v) == "str" \in DOMAIN v
IsDict(v) == "dict" \in DOMAIN v
IsList(v) == "list" \in DOMAIN v

\* Python truthiness of None, a str, a list or a dict
Truthy(v) ==
  IF v = None THEN FALSE
  ELSE IF IsStr(v) THEN v.str # << >>
  ELSE IF IsList(v) THEN v.list # << >>
  ELSE DOMAIN v.dict # {}

\* d.get(key, default) on the function d of a dict
Get(d, key, default) == IF key \in DOMAIN d THEN d[key] ELSE default

\* x or y
Or(x, y) == IF Truthy(x) THEN x ELSE y

Unknown == Str(<< "Unknown" >>)

Merge(f, g) ==
  [k \in DOMAIN f \cup DOMAIN g |-> IF k \in DOMAIN f THEN f[k] ELSE g[k]]

RECURSIVE SumSeq(_)
SumSeq(s) == IF s = << >> THEN 0 ELSE Head(s) + SumSeq(Tail(s))

-----------------------------------------------------------------------------
(* Bounds of the model *)

MaxFiles == 2       \* audio files of an album in the tag-variety inputs
MaxSeconds == 36100 \* largest total duration given to format_duration

-----------------------------------------------------------------------------
(* Decimal text *)

DigitChars == << "0", "1", "2", "3", "4", "5", "6", "7", "8", "9" >>
IsDigit(c) == \E i \in 1..Len(DigitChars) : DigitChars[i] = c
DigitVal(c) == (CHOOSE i \in 1..Len(DigitChars) : DigitChars[i] = c) - 1

\* str(n) for an integer n >= 0, one segment per character
RECURSIVE Digits(_)
Digits(n) ==
  IF n < Len(DigitChars) THEN << DigitChars[n + 1] >>
  ELSE Append(Digits(n \div Len(DigitChars)), DigitChars[(n % Len(DigitChars)) + 1])

\* int(s) for a sequence of digit characters
RECURSIVE DigitsValue(_)
DigitsValue(s) ==
  IF s = << >> THEN 0
  ELSE DigitsValue(SubSeq(s, 1, Len(s) - 1)) * Len(DigitChars) + DigitVal(s[Len(s)])

\* f"{n:02}": n in decimal, padded with zeros on the left to two characters
ZeroPad2(n) == IF Len(Digits(n)) < 2 THEN << "0" >> \o Digits(n) ELSE Digits(n)

\* format_duration(seconds), for an integer number of seconds
format_duration_NoHourRemainder(seconds) ==
  Str(Digits(seconds \div 3600) \o << ":" >> \o ZeroPad2(seconds \div 60)
      \o << ":" >> \o ZeroPad2(seconds % 60))
format_duration(seconds) ==
  LET hours == seconds \div 3600
      minutes == (seconds % 3600) \div 60
      secs == seconds % 60
  IN Str(Digits(hours) \o << ":" >> \o ZeroPad2(minutes) \o << ":" >> \o ZeroPad2(secs))

\* float(s) for the text s of a Duration: [ok, tenths].  The texts of the
\* model carry at most one digit after the point, so a duration is kept
\* exactly, in tenths of a second; ok = FALSE stands for ValueError.
ParseFloat(v) ==
  LET s == v.str
      dots == {i \in 1..Len(s) : s[i] = "."}
      dot == IF dots = {} THEN Len(s) + 1 ELSE CHOOSE i \in dots : TRUE
      whole == SubSeq(s, 1, dot - 1)
      frac == SubSeq(s, dot + 1, Len(s))
  IN IF /\ Cardinality(dots) <= 1
        /\ \A i \in 1..Len(s) : i \in dots \/ IsDigit(s[i])
        /\ Len(whole) + Len(frac) >= 1
        /\ Len(frac) <= 1
     THEN [ok |-> TRUE,
           tenths |-> DigitsValue(whole) * 10 + DigitsValue(frac)]
     ELSE [ok |-> FALSE, tenths |-> 0]

\* int(total_duration) for a duration kept in tenths
IntOfTenths(t) == t \div 10

MiB == 1048576

\* f"{round(total_size / (1024 ** 2), 2)} MB": the size in hundredths of a
\* MiB, rounded half to even, printed the way Python prints a float
FormatSize(bytes) ==
  LET q == (bytes * 100) \div MiB
      r == (bytes * 100) % MiB
      h == IF 2 * r < MiB THEN q
           ELSE IF 2 * r > MiB THEN q + 1
           ELSE IF q % 2 = 0 THEN q ELSE q + 1
      cents == h % 100
      fracText == IF cents % 10 = 0 THEN Digits(cents \div 10) ELSE ZeroPad2(cents)
  IN Str(Digits(h \div 100) \o << "." >> \o fracText \o << " MB" >>)

-----------------------------------------------------------------------------
(* The file system: input/ and output/ hold entries by name.  A folder    *)
(* keeps where it was when the run started (origin), its files, whether   *)
(* it holds <its name>.nfo, and the sub-folder of its own name, if any.   *)

Absent == [absent |-> TRUE]
FileEntry == [kind |-> "file"]
Dir(origin, files, nfo, sub) ==
  [kind |-> "dir", origin |-> origin, files |-> files, nfo |-> nfo, sub |-> sub]
is_dir(e) == e # Absent /\ e.kind = "dir"

EntryNames == { << "A" >>, << "B", ".flac" >> }

\* the extensions generate_nfo globs for, in the order it concatenates them
AudioExts == << ".flac", ".wav", ".mp3", ".m4a", ".ogg", ".opus" >>

Extension(name) == IF name = << >> THEN "" ELSE name[Len(name)]

\* folder.glob("*" + ext): the files whose name ends with ext
Glob(files, ext) == {f \in files : Extension(f.name) = ext}

AudioOf(files) == UNION {Glob(files, AudioExts[i]) : i \in 1..Len(AudioExts)}
ExtRank(f) == CHOOSE i \in 1..Len(AudioExts) : AudioExts[i] = Extension(f.name)

Perms(S) ==
  {s \in [1..Cardinality(S) -> S] : \A i, j \in 1..Cardinality(S) : i # j => s[i] # s[j]}

\* the lists audio_files can be: the globs concatenated in the order of
\* AudioExts, each glob in whatever order the directory yields its files
GlobOrders(files) ==
  {s \in Perms(AudioOf(files)) :
     \A i, j \in 1..Len(s) : i < j => ExtRank(s[i]) <= ExtRank(s[j])}

\* str(f) for a file f of the folder input/<folderName>
PathText(folderName, f) == << "input", "/" >> \o folderName \o << "/" >> \o f.name

\* needle in text, for a needle that is one segment
Contains(text, needle) == \E i \in 1..Len(text) : text[i] = needle

-----------------------------------------------------------------------------
(* What mediainfo reports for a file: the General track of its JSON       *)
(* report, a function on the keys it carries.                             *)

TagKeys == {"Performer", "Album", "Genre", "OriginalSourceForm", "Format", "Recorded_Date"}

TagValues ==
  [k \in TagKeys |->
     CASE k = "Performer" -> {Str(<< >>), Str(<< "Ann" >>)}
       [] k = "Album" -> {Str(<< "LP" >>)}
       [] k = "Genre" -> {Str(<< >>), Str(<< "Rock" >>), Str(<< "Pop" >>)}
       [] k = "OriginalSourceForm" -> {Str(<< "CD" >>)}
       [] k = "Format" -> {Str(<< "FLAC" >>)}
       [] k = "Recorded_Date" -> {Str(<< "2001" >>)}]

One(key, v) == [k \in {key} |-> v]

SingleTagReports == UNION {{One(key, v) : v \in TagValues[key]} : key \in TagKeys}

HalfSecond == Str(<< "0", ".", "5" >>)
NearMinute == Str(<< "5", "9", ".", "6" >>)
NotANumber == Str(<< "n", "/", "a" >>)
DurationTexts == {HalfSecond, NearMinute, NotANumber}
DurationReports == {One("Duration", v) : v \in DurationTexts}

FullReport ==
  [k \in TagKeys \cup {"Duration"} |->
     CASE k = "Performer" -> Str(<< "Ann" >>)
       [] k = "Album" -> Str(<< "LP" >>)
       [] k = "Genre" -> Str(<< "Rock" >>)
       [] k = "OriginalSourceForm" -> Str(<< "CD" >>)
       [] k = "Format" -> Str(<< "FLAC" >>)
       [] k = "Recorded_Date" -> Str(<< "2001" >>)
       [] k = "Duration" -> NearMinute]
PopBadDuration == Merge(One("Genre", Str(<< "Pop" >>)), One("Duration", NotANumber))
EmptySourceForm ==
  Merge(One("OriginalSourceForm", Str(<< >>)), One("Format", Str(<< "FLAC" >>)))

Reports ==
  {NoKeys} \cup SingleTagReports \cup DurationReports
    \cup {FullReport, PopBadDuration, EmptySourceForm}

AudioFile(name, size, exit, report) ==
  [name |-> name, size |-> size, exit |-> exit, report |-> report]

\* per-file outcomes of running mediainfo: exit status 1, or a report
Outcomes == {[exit |-> 1, report |-> NoKeys]} \cup {[exit |-> 0, report |-> r] : r \in Reports}

-----------------------------------------------------------------------------
(* Inputs.  InitRun: two entry names, every mix of file / folder / absent *)
(* in input/ and of absent / folder / folder holding a same-named folder   *)
(* in output/, with a handful of album contents.  InitTags: one album of   *)
(* up to MaxFiles audio files, every outcome of mediainfo for each.        *)

NotesTxt == AudioFile(<< "notes", ".txt" >>, 120, 0, NoKeys)

AlbumSamples ==
  { {NotesTxt},
    {AudioFile(<< "a", ".flac" >>, 5242880, 0, FullReport), NotesTxt},
    {AudioFile(<< "b", ".wav" >>, 1000000, 1, NoKeys),
     AudioFile(<< "d", ".wav" >>, 2500000, 0, PopBadDuration)},
    {AudioFile(<< "c", ".flac", ".mp3" >>, 300000, 0, One("Duration", HalfSecond))} }

InputEntries == {Absent, FileEntry} \cup {Dir("input", c, FALSE, Absent) : c \in AlbumSamples}

OldDir == Dir("output", {}, TRUE, Absent)
OutputEntries == {Absent, OldDir, Dir("output", {}, TRUE, Dir("nested", {}, TRUE, Absent))}

Token == Str(<< "tok" >>)

\* every setting of DISCOGS_TOKEN (unset, empty, set), template and mediainfo
Configs ==
  {None, Str(<< >>), Token} \X {"ok", "missing", "badkey"} \X {"ok", "missing"}

InitLocals ==
  /\ audio_files = << >>
  /\ fileIdx = 1
  /\ artist = None /\ album = None /\ genre = None /\ source = None /\ year = None
  /\ total_duration = 0
  /\ total_size = 0
  /\ discogs_link = None
  /\ response = None
  /\ info = NoKeys

InitControl ==
  /\ pc = "start"
  /\ entries = << >>
  /\ idx = 1
  /\ httpRequests = 0
  /\ InitLocals

InitRun ==
  /\ \E c \in Configs : DISCOGS_TOKEN = c[1] /\ template = c[2] /\ mediainfo = c[3]
  /\ inputExists \in BOOLEAN
  /\ outputExists \in BOOLEAN
  /\ inputDir \in [EntryNames -> IF inputExists THEN InputEntries ELSE {Absent}]
  /\ outputDir \in [EntryNames -> IF inputExists /\ outputExists THEN OutputEntries ELSE {Absent}]
  /\ InitControl

TagFileName(i) == Digits(i) \o << AudioExts[i] >>

TagAlbums ==
  UNION {{ {AudioFile(TagFileName(i), 5242880, o[i].exit, o[i].report) : i \in 1..n}
           : o \in [1..n -> Outcomes]} : n \in 1..MaxFiles}

InitTags ==
  /\ DISCOGS_TOKEN = Token /\ template = "ok" /\ mediainfo = "ok"
  /\ inputExists = TRUE
  /\ outputExists = TRUE
  /\ \E c \in TagAlbums :
       inputDir = [n \in EntryNames |-> IF n = << "A" >> THEN Dir("input", c, FALSE, Absent) ELSE Absent]
  /\ outputDir = [n \in EntryNames |-> Absent]
  /\ InitControl

Init == InitRun \/ InitTags

-----------------------------------------------------------------------------
(* get_media_info and search_discogs *)

\* get_media_info(file_path): None when the executable is missing
\* (FileNotFoundError) or exits non-zero (CalledProcessError), else the
\* General track generate_nfo reads from the parsed report
get_media_info(f) ==
  IF mediainfo = "missing" THEN None
  ELSE IF f.exit # 0 THEN None
  ELSE JDict(f.report)

\* What requests.get meets: a network error, or a response with a status
\* and a body
NetError == [net |-> "error"]
Http(status, body) == [net |-> "ok", status |-> status, body |-> body]
NotJson == [json |-> FALSE]
Json(data) == [json |-> TRUE, data |-> data]

RelativeUri == Str(<< "/", "release/1" >>)
AbsoluteUri == Str(<< "https://www.discogs.com", "/", "release/2" >>)

Results ==
  { JList(<< >>),
    JList(<< Str(<< "x" >>) >>),
    JList(<< JDict(NoKeys) >>),
    JList(<< JDict(One("uri", None)) >>),
    JList(<< JDict(One("uri", Str(<< >>))) >>),
    JList(<< JDict(One("uri", RelativeUri)) >>),
    JList(<< JDict(One("uri", AbsoluteUri)), JDict(One("uri", RelativeUri)) >>) }

Bodies ==
  {NotJson, Json(JList(<< >>)), Json(JDict(NoKeys)), Json(JDict(One("results", None)))}
    \cup {Json(JDict(One("results", r))) : r \in Results}

Responses ==
  {NetError, Http(404, Json(JDict(NoKeys))), Http(500, NotJson)}
    \cup {Http(200, b) : b \in Bodies}

\* the try block of search_discogs: [raised, returned, value], where raised
\* stands for an exception and returned for reaching "return uri"
Raised == [raised |-> TRUE, returned |-> FALSE, value |-> None]
FellThrough == [raised |-> FALSE, returned |-> FALSE, value |-> None]
Returned(v) == [raised |-> FALSE, returned |-> TRUE, value |-> v]

TryLookup(resp) ==
  IF resp.net = "error" THEN Raised                        \* requests.get
  ELSE IF resp.status >= 400 THEN Raised                   \* raise_for_status
  ELSE IF ~resp.body.json THEN Raised                      \* response.json()
  ELSE LET data == resp.body.data IN
    IF ~IsDict(data) THEN Raised                           \* data.get
    ELSE LET results == Get(data.dict, "results", None) IN
      IF ~Truthy(results) THEN FellThrough
      ELSE LET first == results.list[1] IN
        IF ~IsDict(first) THEN Raised                      \* first.get
        ELSE LET uri == Get(first.dict, "uri", Unknown) IN
          IF ~IsStr(uri) THEN Raised                       \* uri.startswith
          ELSE IF uri.str # << >> /\ Head(uri.str) = "/"
               THEN Returned(Str(<< "https://www.discogs.com" >> \o uri.str))
               ELSE Returned(uri)

\* search_discogs(artist, album) when the request meets resp:
\* [raised, ret, http], http the number of requests issued
search_discogs_RaiseOnError(resp) ==
  IF ~Truthy(DISCOGS_TOKEN) THEN [raised |-> FALSE, ret |-> Unknown, http |-> 0]
  ELSE LET t == TryLookup(resp) IN
    IF t.raised THEN [raised |-> TRUE, ret |-> None, http |-> 1]
    ELSE [raised |-> FALSE, ret |-> IF t.returned THEN t.value ELSE Unknown, http |-> 1]
search_discogs_TokenIsNone(resp) ==
  IF DISCOGS_TOKEN = None THEN [raised |-> FALSE, ret |-> Unknown, http |-> 0]
  ELSE LET t == TryLookup(resp) IN
    [raised |-> FALSE, ret |-> IF t.returned THEN t.value ELSE Unknown, http |-> 1]
search_discogs(resp) ==
  IF ~Truthy(DISCOGS_TOKEN) THEN [raised |-> FALSE, ret |-> Unknown, http |-> 0]
  ELSE LET t == TryLookup(resp) IN
    IF t.raised THEN [raised |-> FALSE, ret |-> Unknown, http |-> 1]
    ELSE [raised |-> FALSE, ret |-> IF t.returned THEN t.value ELSE Unknown, http |-> 1]

-----------------------------------------------------------------------------
(* process_albums and generate_nfo *)

album_folder == entries[idx]
folder == inputDir[album_folder]

ResetLocals ==
  /\ audio_files' = << >>
  /\ fileIdx' = 1
  /\ artist' = None /\ album' = None /\ genre' = None /\ source' = None /\ year' = None
  /\ total_duration' = 0
  /\ total_size' = 0
  /\ discogs_link' = None
  /\ response' = None
  /\ info' = NoKeys

\* process_albums: the input root does not exist
InputMissing ==
  /\ pc = "start"
  /\ ~inputExists
  /\ pc' = "done"
  /\ UNCHANGED << config, outputExists, inputDir, outputDir, entries, idx,
                  nfoLocals, httpRequests >>

\* process_albums: create the output root if needed, list the input root
ListInput ==
  /\ pc = "start"
  /\ inputExists
  /\ outputExists' = TRUE
  /\ entries' \in Perms({n \in EntryNames : inputDir[n] # Absent})
  /\ idx' = 1
  /\ pc' = "loop"
  /\ UNCHANGED << config, inputDir, outputDir, nfoLocals, httpRequests >>

\* the for loop of process_albums is exhausted
LoopDone ==
  /\ pc = "loop"
  /\ idx > Len(entries)
  /\ pc' = "done"
  /\ UNCHANGED << config, outputExists, inputDir, outputDir, entries, idx,
                  nfoLocals, httpRequests >>

\* an entry that is not a directory: continue
SkipNonDir ==
  /\ pc = "loop"
  /\ idx <= Len(entries)
  /\ ~is_dir(folder)
  /\ idx' = idx + 1
  /\ UNCHANGED << config, outputExists, inputDir, outputDir, entries, pc,
                  nfoLocals, httpRequests >>

\* generate_nfo: open(TEMPLATE_PATH) raises, nothing catches it
TemplateMissing ==
  /\ pc = "loop"
  /\ idx <= Len(entries)
  /\ is_dir(folder)
  /\ template = "missing"
  /\ pc' = "aborted"
  /\ UNCHANGED << config, outputExists, inputDir, outputDir, entries, idx,
                  nfoLocals, httpRequests >>

\* generate_nfo: no audio file, return; process_albums goes on to the move
NoAudioFiles_Skips ==
  /\ pc = "loop"
  /\ idx <= Len(entries)
  /\ is_dir(folder)
  /\ template # "missing"
  /\ AudioOf(folder.files) = {}
  /\ idx' = idx + 1
  /\ UNCHANGED << config, outputExists, inputDir, outputDir, entries, pc,
                  nfoLocals, httpRequests >>
NoAudioFiles ==
  /\ pc = "loop"
  /\ idx <= Len(entries)
  /\ is_dir(folder)
  /\ template # "missing"
  /\ AudioOf(folder.files) = {}
  /\ pc' = "move"
  /\ UNCHANGED << config, outputExists, inputDir, outputDir, entries, idx,
                  nfoLocals, httpRequests >>

\* generate_nfo: glob the audio files, sum their sizes, start the for loop
GlobAudio ==
  /\ pc = "loop"
  /\ idx <= Len(entries)
  /\ is_dir(folder)
  /\ template # "missing"
  /\ AudioOf(folder.files) # {}
  /\ audio_files' \in GlobOrders(folder.files)
  /\ total_size' = SumSeq([i \in 1..Len(audio_files') |-> audio_files'[i].size])
  /\ total_duration' = 0
  /\ fileIdx' = 1
  /\ artist' = None /\ album' = None /\ genre' = None /\ source' = None /\ year' = None
  /\ pc' = "files"
  /\ UNCHANGED << config, outputExists, inputDir, outputDir, entries, idx,
                  discogs_link, response, info, httpRequests >>

\* "if x is None: x = general_info.get(key, "Unknown")"
FirstWins(cur, general_info, key) ==
  IF cur = None THEN Get(general_info, key, Unknown) ELSE cur

\* the source default: general_info.get("Format", "Unknown")
SourceOf(general_info) ==
  Get(general_info, "OriginalSourceForm", Get(general_info, "Format", Unknown))

\* total_duration += float(general_info.get("Duration", "0")), ValueError
\* caught: [raised, total]
AddDuration_Raises(total, general_info) ==
  LET d == ParseFloat(Get(general_info, "Duration", Str(<< "0" >>)))
  IN IF d.ok THEN [raised |-> FALSE, total |-> total + d.tenths]
     ELSE [raised |-> TRUE, total |-> total]
AddDuration(total, general_info) ==
  LET d == ParseFloat(Get(general_info, "Duration", Str(<< "0" >>)))
  IN IF d.ok THEN [raised |-> FALSE, total |-> total + d.tenths]
     ELSE [raised |-> FALSE, total |-> total]

\* one iteration of the for loop of generate_nfo
ExtractFile ==
  /\ pc = "files"
  /\ LET media_info == get_media_info(audio_files[fileIdx])
         more == fileIdx < Len(audio_files)
     IN IF ~Truthy(media_info)
        THEN /\ UNCHANGED << artist, album, genre, source, year, total_duration >>
             /\ pc' = IF more THEN "files" ELSE "lookup"
             /\ fileIdx' = IF more THEN fileIdx + 1 ELSE fileIdx
        ELSE LET general_info == media_info.dict
                 added == AddDuration(total_duration, general_info)
             IN /\ artist' = FirstWins(artist, general_info, "Performer")
                /\ album' = FirstWins(album, general_info, "Album")
                /\ genre' = FirstWins(genre, general_info, "Genre")
                /\ source' = IF source = None THEN SourceOf(general_info) ELSE source
                /\ year' = FirstWins(year, general_info, "Recorded_Date")
                /\ total_duration' = added.total
                /\ pc' = IF added.raised THEN "aborted"
                         ELSE IF more THEN "files" ELSE "lookup"
                /\ fileIdx' = IF more /\ ~added.raised THEN fileIdx + 1 ELSE fileIdx
  /\ UNCHANGED << config, outputExists, inputDir, outputDir, entries, idx,
                  audio_files, total_size, discogs_link, response, info, httpRequests >>

\* "if not discogs_link: discogs_link = search_discogs(artist, album)";
\* process_albums never passes a link
Lookup ==
  /\ pc = "lookup"
  /\ \E resp \in Responses :
       LET r == search_discogs(resp) IN
         /\ discogs_link' = r.ret
         /\ response' = IF r.http = 0 THEN None ELSE resp
         /\ httpRequests' = httpRequests + r.http
         /\ pc' = IF r.raised THEN "aborted" ELSE "render"
  /\ UNCHANGED << config, outputExists, inputDir, outputDir, entries, idx,
                  audio_files, fileIdx, artist, album, genre, source, year,
                  total_duration, total_size, info >>

InfoKeys ==
  {"Release", "Artist(s)", "Album", "Genre", "Source", "Annee", "Ripper", "Encode",
   "Qualite", "Link", "Duree", "Taille"}

\* "FLAC" if any(".flac" in str(f) for f in audio_files) else "WAV"
Qualite ==
  IF \E i \in 1..Len(audio_files) : Contains(PathText(album_folder, audio_files[i]), ".flac")
  THEN Str(<< "FLAC" >>) ELSE Str(<< "WAV" >>)

\* the info mapping of generate_nfo
BuildInfo ==
  [k \in InfoKeys |->
     CASE k = "Release" -> Str(album_folder)
       [] k = "Artist(s)" -> Or(artist, Unknown)
       [] k = "Album" -> Or(album, Unknown)
       [] k = "Genre" -> Or(genre, Unknown)
       [] k = "Source" -> Or(source, Unknown)
       [] k = "Annee" -> Or(year, Unknown)
       [] k = "Ripper" -> Str(<< "dBpoweramp" >>)
       [] k = "Encode" -> Str(<< "dBpoweramp" >>)
       [] k = "Qualite" -> Qualite
       [] k = "Link" -> discogs_link
       [] k = "Duree" -> format_duration(IntOfTenths(total_duration))
       [] k = "Taille" -> FormatSize(total_size)]

\* build info, fill the template, write <folder>/<folder name>.nfo
Render ==
  /\ pc = "render"
  /\ template = "ok"
  /\ info' = BuildInfo
  /\ inputDir' = [inputDir EXCEPT ![album_folder].nfo = TRUE]
  /\ pc' = "move"
  /\ UNCHANGED << config, outputExists, outputDir, entries, idx, audio_files, fileIdx,
                  artist, album, genre, source, year, total_duration, total_size,
                  discogs_link, response, httpRequests >>

\* nfo_template.format(**info) raises KeyError on a placeholder info lacks
RenderFails ==
  /\ pc = "render"
  /\ template = "badkey"
  /\ info' = BuildInfo
  /\ pc' = "aborted"
  /\ UNCHANGED << config, outputExists, inputDir, outputDir, entries, idx, audio_files,
                  fileIdx, artist, album, genre, source, year, total_duration,
                  total_size, discogs_link, response, httpRequests >>

\* shutil.move(src, dst) succeeds: dst is not there (rename), or dst is a
\* directory that holds no entry of src's name (src is moved inside it)
MoveLands(dst) == IF dst = Absent THEN TRUE ELSE dst.sub = Absent

\* shutil.move(src, dst): dst is not there, rename; dst is a directory, move
\* src inside it, unless it already holds an entry of that name
MoveAlbum_KeepsSource ==
  /\ pc = "move"
  /\ LET dst == outputDir[album_folder] IN
       /\ MoveLands(dst)
       /\ outputDir' = [outputDir EXCEPT ![album_folder] =
                          IF dst = Absent THEN folder ELSE [dst EXCEPT !.sub = folder]]
       /\ inputDir' = inputDir
  /\ idx' = idx + 1
  /\ pc' = "loop"
  /\ ResetLocals
  /\ UNCHANGED << config, outputExists, entries, httpRequests >>
MoveAlbum ==
  /\ pc = "move"
  /\ LET dst == outputDir[album_folder] IN
       /\ MoveLands(dst)
       /\ outputDir' = [outputDir EXCEPT ![album_folder] =
                          IF dst = Absent THEN folder ELSE [dst EXCEPT !.sub = folder]]
       /\ inputDir' = [inputDir EXCEPT ![album_folder] = Absent]
  /\ idx' = idx + 1
  /\ pc' = "loop"
  /\ ResetLocals
  /\ UNCHANGED << config, outputExists, entries, httpRequests >>

\* shutil.move raises shutil.Error: output/<name>/<name> already exists
MoveFails ==
  /\ pc = "move"
  /\ ~MoveLands(outputDir[album_folder])
  /\ pc' = "aborted"
  /\ UNCHANGED << config, outputExists, inputDir, outputDir, entries, idx,
                  nfoLocals, httpRequests >>

Next ==
  \/ InputMissing
  \/ ListInput
  \/ LoopDone
  \/ SkipNonDir
  \/ TemplateMissing
  \/ NoAudioFiles
  \/ GlobAudio
  \/ ExtractFile
  \/ Lookup
  \/ Render
  \/ RenderFails
  \/ MoveAlbum
  \/ MoveFails

Spec == Init /\ [][Next]_vars

-----------------------------------------------------------------------------
(* generate_nfo on one album whose single file reports a whole number of  *)
(* seconds, from the for loop on: every total from 0 to MaxSeconds.       *)

TimedAlbum(s) ==
  Dir("input", {AudioFile(<< "1", ".flac" >>, 5242880, 0, One("Duration", Str(Digits(s))))},
      FALSE, Absent)

InitFmt ==
  /\ DISCOGS_TOKEN = None /\ template = "ok" /\ mediainfo = "ok"
  /\ inputExists = TRUE
  /\ outputExists = TRUE
  /\ \E s \in 0..MaxSeconds :
       /\ inputDir = [n \in EntryNames |-> IF n = << "A" >> THEN TimedAlbum(s) ELSE Absent]
       /\ audio_files \in GlobOrders(TimedAlbum(s).files)
  /\ outputDir = [n \in EntryNames |-> Absent]
  /\ pc = "files"
  /\ entries = << << "A" >> >>
  /\ idx = 1
  /\ httpRequests = 0
  /\ fileIdx = 1
  /\ artist = None /\ album = None /\ genre = None /\ source = None /\ year = None
  /\ total_duration = 0
  /\ total_size = SumSeq([i \in 1..Len(audio_files) |-> audio_files[i].size])
  /\ discogs_link = None
  /\ response = None
  /\ info = NoKeys

NextFmt == ExtractFile \/ Lookup \/ Render

SpecFmt == InitFmt /\ [][NextFmt]_vars

-----------------------------------------------------------------------------
(* Vocabulary of the properties *)

Range(s) == {s[i] : i \in 1..Len(s)}

\* the entry at a place of the tree: input/<n>, output/<n>, output/<n>/<n>
NodeAt(loc, n) ==
  CASE loc = "input" -> inputDir[n]
    [] loc = "output" -> outputDir[n]
    [] loc = "nested" -> IF is_dir(outputDir[n]) THEN outputDir[n].sub ELSE Absent

\* where the album folder that started as input/<n> is now
Located(n) ==
  {loc \in {"input", "output", "nested"} :
     is_dir(NodeAt(loc, n)) /\ NodeAt(loc, n).origin = "input"}

HasAudio(node) == \E f \in node.files : \E i \in 1..Len(AudioExts) : Extension(f.name) = AudioExts[i]

\* info has been built for the current album
Rendered == info # NoKeys

\* C1: when a run of process_albums completes, every album folder that
\* started in input/ with an audio file is output/<name>/, holds <name>.nfo,
\* and input/<name>/ is gone
C1_RelocatedWithNfo ==
  pc = "done" =>
    \A n \in EntryNames : \A loc \in Located(n) :
      HasAudio(NodeAt(loc, n)) =>
        /\ loc = "output"
        /\ NodeAt(loc, n).nfo
        /\ inputDir[n] = Absent

\* C2: every one of the twelve fields of info is a non-empty string
C2_InfoFieldsNonEmpty ==
  Rendered => \A k \in InfoKeys : IsStr(info[k]) /\ info[k].str # << >>

\* the value file i of audio_files carries for a tag, None when it has no
\* record or the record lacks the tag
Carried(i, key) ==
  LET media_info == get_media_info(audio_files[i]) IN
    IF media_info = None THEN None
    ELSE IF key = "Source"
         THEN Get(media_info.dict, "OriginalSourceForm", Get(media_info.dict, "Format", None))
         ELSE Get(media_info.dict, key, None)

FirstNonEmpty(key) ==
  LET having == {i \in 1..Len(audio_files) : Truthy(Carried(i, key))} IN
    IF having = {} THEN Unknown
    ELSE Carried(CHOOSE i \in having : \A j \in having : i <= j, key)

\* C3: each of artist, album, genre, source and year is the value of the
\* first file, in processing order, that carries a non-empty value for it,
\* and "Unknown" only when no file does
C3_FirstNonEmptyWins ==
  Rendered =>
    /\ info["Artist(s)"] = FirstNonEmpty("Performer")
    /\ info["Album"] = FirstNonEmpty("Album")
    /\ info["Genre"] = FirstNonEmpty("Genre")
    /\ info["Source"] = FirstNonEmpty("Source")
    /\ info["Annee"] = FirstNonEmpty("Recorded_Date")

\* C4, as stated: a folder with no audio file gets no .nfo and is still in
\* input/, and not under output/, when the run ends
C4_NoAudioStaysInInput ==
  pc \in {"done", "aborted"} =>
    \A n \in EntryNames : \A loc \in Located(n) :
      ~HasAudio(NodeAt(loc, n)) => loc = "input" /\ ~NodeAt(loc, n).nfo

\* C4, amended: a folder with no audio file never gets a .nfo, and it is
\* moved like any other: when the run completes it has left input/
C4_NoAudioMovedWithoutNfo ==
  \A n \in EntryNames : \A loc \in Located(n) :
    ~HasAudio(NodeAt(loc, n)) =>
      /\ ~NodeAt(loc, n).nfo
      /\ pc = "done" => loc # "input"

C4_Witness ==
  /\ pc = "done"
  /\ \E n \in EntryNames : \E loc \in Located(n) :
       ~HasAudio(NodeAt(loc, n)) /\ loc \in {"output", "nested"}

\* the lookup failed: a network error, a status that is not 2xx, a body
\* that is not JSON of the expected shape, or no results
LookupFailed(resp) ==
  \/ resp.net = "error"
  \/ /\ resp.net = "ok"
     /\ \/ resp.status \notin 200..299
        \/ ~resp.body.json
        \/ /\ resp.body.json
           /\ \/ ~IsDict(resp.body.data)
              \/ /\ IsDict(resp.body.data)
                 /\ LET d == resp.body.data.dict IN
                      \/ "results" \notin DOMAIN d
                      \/ /\ "results" \in DOMAIN d
                         /\ \/ ~IsList(d["results"])
                            \/ /\ IsList(d["results"])
                               /\ \/ d["results"].list = << >>
                                  \/ /\ d["results"].list # << >>
                                     /\ LET first == d["results"].list[1] IN
                                          \/ ~IsDict(first)
                                          \/ /\ IsDict(first)
                                             /\ \/ "uri" \notin DOMAIN first.dict
                                                \/ /\ "uri" \in DOMAIN first.dict
                                                   /\ ~IsStr(first.dict["uri"])

C6_NoTokenNoRequest ==
  ~Truthy(DISCOGS_TOKEN) =>
    /\ httpRequests = 0
    /\ response = None
    /\ pc \in {"render", "move"} /\ audio_files # << >> => discogs_link = Unknown
    /\ Rendered => info["Link"] = Unknown

C6_Witness ==
  /\ pc = "done"
  /\ DISCOGS_TOKEN = Str(<< >>)
  /\ \A n \in EntryNames : "output" \in Located(n) /\ outputDir[n].nfo

\* C7: Qualite is "FLAC" exactly when a processed file has the extension
\* .flac, and "WAV" otherwise
C7_QualiteByExtension ==
  Rendered =>
    info["Qualite"] =
      IF \E i \in 1..Len(audio_files) : Extension(audio_files[i].name) = ".flac"
      THEN Str(<< "FLAC" >>) ELSE Str(<< "WAV" >>)

\* the text of info["Duree"], cut at its colons
Duree == info["Duree"].str
Colons == {i \in 1..Len(Duree) : Duree[i] = ":"}
FirstColon == CHOOSE i \in Colons : \A j \in Colons : i <= j
LastColon == CHOOSE i \in Colons : \A j \in Colons : j <= i
HoursText == SubSeq(Duree, 1, FirstColon - 1)
MinutesText == SubSeq(Duree, FirstColon + 1, LastColon - 1)
SecondsText == SubSeq(Duree, LastColon + 1, Len(Duree))
AllDigits(s) == \A i \in 1..Len(s) : IsDigit(s[i])

\* C8: for S whole seconds, Duree reads H:MM:SS with H = S // 3600 unpadded,
\* MM = (S % 3600) // 60 and SS = S % 60 on two digits, so that
\* 3600*H + 60*MM + SS = S with MM and SS in 0..59; 3725 gives 1:02:05
C8_DurationFormat ==
  Rendered =>
    LET S == IntOfTenths(total_duration)
        H == DigitsValue(HoursText)
        MM == DigitsValue(MinutesText)
        SS == DigitsValue(SecondsText)
    IN /\ Cardinality(Colons) = 2
       /\ AllDigits(HoursText) /\ AllDigits(MinutesText) /\ AllDigits(SecondsText)
       /\ Len(HoursText) >= 1
       /\ Len(HoursText) > 1 => HoursText[1] # "0"
       /\ Len(MinutesText) = 2
       /\ Len(SecondsText) = 2
       /\ H = S \div 3600
       /\ MM = (S % 3600) \div 60
       /\ SS = S % 60
       /\ 3600 * H + 60 * MM + SS = S
       /\ MM \in 0..59 /\ SS \in 0..59
       /\ S = 3725 => Duree = << "1", ":", "0", "2", ":", "0", "5" >>

C8_Witness ==
  /\ Rendered
  /\ IntOfTenths(total_duration) = 3725
  /\ Duree = << "1", ":", "0", "2", ":", "0", "5" >>

\* per-file errors: the tool is missing or exits non-zero; the record's
\* Duration is text that float() rejects
ToolFails(f) == mediainfo = "missing" \/ f.exit # 0
BadDuration(f) ==
  /\ ~ToolFails(f)
  /\ "Duration" \in DOMAIN f.report
  /\ ~ParseFloat(f.report["Duration"]).ok

tags == << artist, album, genre, source, year >>

====
